---- MODULE Spec2Model ----
(***************************************************************************)
(* Guidedog, the Cloudflare Worker API proxy of the DVCCC Instagram        *)
(* manager (src/cloudflare-worker/guidedog-worker.js).                     *)
(*                                                                         *)
(* A request is received by the exported fetch handler, which answers it   *)
(* at once (preflight, health, not found, configuration error) or issues   *)
(* one upstream call and suspends on it; the upstream call then completes  *)
(* with a response, which is relayed, or throws, which gives a 502.        *)
(*                                                                         *)
(* Strings the code takes apart (request URL, path) are sequences of       *)
(* symbols; strings it only compares or concatenates are TLA+ strings.     *)
(***************************************************************************)
EXTENDS Integers, Sequences, FiniteSets, TLC

(***************************************************************************)
(* Bounds of the model.                                                    *)
(***************************************************************************)
MaxPathLen == 4          \* symbols in a request path, the leading "/" included
MaxInFlight == 2         \* request slots of the runtime
MaxClock == 2            \* readings of the wall clock

(***************************************************************************)
(* Values of the JavaScript runtime.                                       *)
(***************************************************************************)
Undefined == "<undefined>"                  \* an unset secret: env.X is undefined
NullBody  == [kind |-> "null"]              \* Response/Request body null
NoValue   == [kind |-> "none"]              \* a slot holding nothing

\* a test for undefined alone, which lets the empty string through
FalsyOnlyUndefined(v) == v = Undefined

\* !v of JavaScript for a string-or-undefined value
Falsy(v) == v = Undefined \/ v = ""

\* JSON.stringify(obj): the text of obj
JSONstringify(obj) == [kind |-> "text", json |-> obj]

\* Header names are case-insensitive: a Headers object keeps them lower-cased.
LowerTable ==
  [n \in {"Access-Control-Allow-Origin", "Access-Control-Allow-Methods",
          "Access-Control-Allow-Headers", "Content-Type", "Authorization",
          "Host", "x-api-key", "anthropic-version"} |->
     CASE n = "Access-Control-Allow-Origin"  -> "access-control-allow-origin"
       [] n = "Access-Control-Allow-Methods" -> "access-control-allow-methods"
       [] n = "Access-Control-Allow-Headers" -> "access-control-allow-headers"
       [] n = "Content-Type"                 -> "content-type"
       [] n = "Authorization"                -> "authorization"
       [] n = "Host"                         -> "host"
       [] n = "x-api-key"                    -> "x-api-key"
       [] n = "anthropic-version"            -> "anthropic-version"]

toLowerCase(n) == IF n \in DOMAIN LowerTable THEN LowerTable[n] ELSE n

\* new Headers(init): init a plain object or a Headers; names lower-cased
NewHeaders(init) ==
  [k \in {toLowerCase(n) : n \in DOMAIN init} |->
     LET n == CHOOSE m \in DOMAIN init : toLowerCase(m) = k IN init[n]]

\* headers.set(name, value)
HeadersSet(h, name, value) ==
  [k \in DOMAIN h \cup {toLowerCase(name)} |->
     IF k = toLowerCase(name) THEN value ELSE h[k]]

\* headers.delete(name)
HeadersDelete(h, name) ==
  [k \in DOMAIN h \ {toLowerCase(name)} |-> h[k]]

\* { ...a, ...b } of two plain objects: b's entries win
Spread(a, b) ==
  [k \in DOMAIN a \cup DOMAIN b |-> IF k \in DOMAIN b THEN b[k] ELSE a[k]]

\* new Response(body, init): status defaults to 200, statusText to ""
NewResponse(body, init) ==
  [status     |-> IF "status" \in DOMAIN init THEN init.status ELSE 200,
   statusText |-> IF "statusText" \in DOMAIN init THEN init.statusText ELSE "",
   headers    |-> NewHeaders(init.headers),
   body       |-> body]

(***************************************************************************)
(* Strings as sequences of symbols.                                        *)
(***************************************************************************)
\* s.startsWith(p)
startsWith(s, p) == Len(s) >= Len(p) /\ SubSeq(s, 1, Len(p)) = p

\* the positions at which pat occurs in s
Occurrences(s, pat) ==
  {i \in 1..(Len(s) - Len(pat) + 1) : SubSeq(s, i, i + Len(pat) - 1) = pat}

\* s.replaceAll(pat, rep), for a pattern that cannot overlap itself
RECURSIVE replaceAll(_, _, _)
replaceAll(s, pat, rep) ==
  IF Occurrences(s, pat) = {} THEN s
  ELSE LET i == CHOOSE j \in Occurrences(s, pat) :
                   \A k \in Occurrences(s, pat) : j <= k
       IN SubSeq(s, 1, i - 1) \o rep \o
          replaceAll(SubSeq(s, i + Len(pat), Len(s)), pat, rep)

\* s.replace(pat, rep) with a string pattern: the first occurrence only
replace(s, pat, rep) ==
  IF Occurrences(s, pat) = {} THEN s
  ELSE LET i == CHOOSE j \in Occurrences(s, pat) :
                   \A k \in Occurrences(s, pat) : j <= k
       IN SubSeq(s, 1, i - 1) \o rep \o SubSeq(s, i + Len(pat), Len(s))

\* url.pathname + url.search: the query string kept with the path
URLpathnameWithSearch(u) == Tail(u)

\* new URL(u).pathname: what follows the origin, up to the query string
URLpathname(u) ==
  LET rest == Tail(u)
      qs   == {i \in 1..Len(rest) : rest[i] = "?"}
      stop == IF qs = {} THEN Len(rest)
              ELSE (CHOOSE i \in qs : \A j \in qs : i <= j) - 1
  IN SubSeq(rest, 1, stop)


\* new Date().toISOString() at clock reading t
toISOString(t) == [iso |-> t]

(***************************************************************************)
(* The worker.  A handler either returns a response or suspends on an      *)
(* upstream call (await fetch(...)).                                       *)
(***************************************************************************)
Return(resp)  == [kind |-> "return", response |-> resp]
Await(route, c) == [kind |-> "await", route |-> route, call |-> c]

corsHeaders ==
  [n \in {"Access-Control-Allow-Origin", "Access-Control-Allow-Methods",
          "Access-Control-Allow-Headers"} |->
     CASE n = "Access-Control-Allow-Origin"  -> "*"
       [] n = "Access-Control-Allow-Methods" -> "GET, POST, PUT, DELETE, OPTIONS"
       [] n = "Access-Control-Allow-Headers" ->
            "Content-Type, Authorization, X-Requested-With"]

\* { 'Content-Type': 'application/json', ...corsHeaders }
jsonHeaders ==
  Spread([n \in {"Content-Type"} |-> "application/json"], corsHeaders)

handleCORS ==
  NewResponse(NullBody, [status |-> 204, headers |-> corsHeaders])

\* Object.entries(obj).forEach(([key, value]) => h.set(key, value))
RECURSIVE SetEach(_, _, _)
SetEach(h, obj, names) ==
  IF names = {} THEN h
  ELSE LET n == CHOOSE m \in names : TRUE
       IN SetEach(HeadersSet(h, n, obj[n]), obj, names \ {n})

\* the upstream call built without the request's body
forwardedBodyDropped(request) == [kind |-> "undefined"]

\* body: request.method !== 'GET' ? request.body : undefined
forwardedBody(request) ==
  IF request.method # "GET" THEN request.body ELSE [kind |-> "undefined"]

\* handleOpenAI that leaves an Authorization header the client sent
handleOpenAIKeepsClientAuth(request, e, path) ==
  LET OPENAI_API_KEY == e.OPENAI_API_KEY IN
  IF Falsy(OPENAI_API_KEY)
  THEN Return(NewResponse(
         JSONstringify([error |-> "Configuration Error",
                        message |-> "OPENAI_API_KEY not configured in worker secrets"]),
         [status |-> 500, headers |-> jsonHeaders]))
  ELSE LET h == NewHeaders(request.headers)
           headers ==
             HeadersDelete(
               IF "authorization" \in DOMAIN h THEN h
               ELSE HeadersSet(h, "Authorization", "Bearer " \o OPENAI_API_KEY),
               "Host")
       IN Await("openai", [url     |-> <<"https://api.openai.com">> \o path,
                           method  |-> request.method,
                           headers |-> headers,
                           body    |-> forwardedBody(request)])

\* handleOpenAI that forwards without looking at the key
handleOpenAIKeyUnchecked(request, e, path) ==
  Await("openai",
        [url     |-> <<"https://api.openai.com">> \o path,
         method  |-> request.method,
         headers |-> HeadersDelete(
                       HeadersSet(NewHeaders(request.headers), "Authorization",
                                  "Bearer " \o e.OPENAI_API_KEY),
                       "Host"),
         body    |-> forwardedBody(request)])

handleOpenAI(request, e, path) ==
  LET OPENAI_API_KEY == e.OPENAI_API_KEY IN
  IF Falsy(OPENAI_API_KEY)
  THEN Return(NewResponse(
         JSONstringify([error |-> "Configuration Error",
                        message |-> "OPENAI_API_KEY not configured in worker secrets"]),
         [status |-> 500, headers |-> jsonHeaders]))
  ELSE LET openaiUrl == <<"https://api.openai.com">> \o path
           headers ==
             HeadersDelete(
               HeadersSet(NewHeaders(request.headers), "Authorization",
                          "Bearer " \o OPENAI_API_KEY),
               "Host")
       IN Await("openai", [url     |-> openaiUrl,
                           method  |-> request.method,
                           headers |-> headers,
                           body    |-> forwardedBody(request)])

\* the relay that forgets to set the CORS values
openaiRelayNoCors(response) ==
  NewResponse(response.body,
              [status     |-> response.status,
               statusText |-> response.statusText,
               headers    |-> NewHeaders(response.headers)])

\* handleOpenAI after the await: the upstream response is relayed with the CORS set
openaiRelay(response) ==
  LET responseHeaders ==
        SetEach(NewHeaders(response.headers), corsHeaders, DOMAIN corsHeaders)
  IN NewResponse(response.body,
                 [status     |-> response.status,
                  statusText |-> response.statusText,
                  headers    |-> responseHeaders])

\* the catch block that reports a fixed message
openaiCatchFixedMessage(error) ==
  NewResponse(JSONstringify([error   |-> "Proxy Error",
                             message |-> "upstream request failed"]),
              [status |-> 502, headers |-> jsonHeaders])

\* handleOpenAI: the catch block
openaiCatch(error) ==
  NewResponse(JSONstringify([error   |-> "Proxy Error",
                             message |-> error.message]),
              [status |-> 502, headers |-> jsonHeaders])

\* handleAnthropic that builds the upstream headers from nothing
handleAnthropicFreshHeaders(request, e, path) ==
  LET ANTHROPIC_API_KEY == e.ANTHROPIC_API_KEY IN
  IF Falsy(ANTHROPIC_API_KEY)
  THEN Return(NewResponse(
         JSONstringify([error |-> "Configuration Error",
                        message |-> "ANTHROPIC_API_KEY not configured in worker secrets"]),
         [status |-> 500, headers |-> jsonHeaders]))
  ELSE LET headers ==
             HeadersSet(
               HeadersSet(NewHeaders(<<>>), "x-api-key", ANTHROPIC_API_KEY),
               "anthropic-version", "2023-06-01")
       IN Await("anthropic",
                [url     |-> <<"https://api.anthropic.com">> \o
                               replace(path, <<"/", "anthropic">>, <<>>),
                 method  |-> request.method,
                 headers |-> headers,
                 body    |-> forwardedBody(request)])

\* handleAnthropic that also refuses when the OpenAI key is not configured
handleAnthropicChecksOpenAIKey(request, e, path) ==
  LET ANTHROPIC_API_KEY == e.ANTHROPIC_API_KEY IN
  IF Falsy(ANTHROPIC_API_KEY) \/ Falsy(e.OPENAI_API_KEY)
  THEN Return(NewResponse(
         JSONstringify([error |-> "Configuration Error",
                        message |-> "ANTHROPIC_API_KEY not configured in worker secrets"]),
         [status |-> 500, headers |-> jsonHeaders]))
  ELSE LET anthropicPath == replace(path, <<"/", "anthropic">>, <<>>)
           anthropicUrl  == <<"https://api.anthropic.com">> \o anthropicPath
           headers ==
             HeadersDelete(
               HeadersSet(
                 HeadersSet(NewHeaders(request.headers), "x-api-key",
                            ANTHROPIC_API_KEY),
                 "anthropic-version", "2023-06-01"),
               "Host")
       IN Await("anthropic", [url     |-> anthropicUrl,
                              method  |-> request.method,
                              headers |-> headers,
                              body    |-> forwardedBody(request)])

handleAnthropic(request, e, path) ==
  LET ANTHROPIC_API_KEY == e.ANTHROPIC_API_KEY IN
  IF Falsy(ANTHROPIC_API_KEY)
  THEN Return(NewResponse(
         JSONstringify([error |-> "Configuration Error",
                        message |-> "ANTHROPIC_API_KEY not configured in worker secrets"]),
         [status |-> 500, headers |-> jsonHeaders]))
  ELSE LET anthropicPath == replace(path, <<"/", "anthropic">>, <<>>)
           anthropicUrl  == <<"https://api.anthropic.com">> \o anthropicPath
           headers ==
             HeadersDelete(
               HeadersSet(
                 HeadersSet(NewHeaders(request.headers), "x-api-key",
                            ANTHROPIC_API_KEY),
                 "anthropic-version", "2023-06-01"),
               "Host")
       IN Await("anthropic", [url     |-> anthropicUrl,
                              method  |-> request.method,
                              headers |-> headers,
                              body    |-> forwardedBody(request)])

\* the relay that does not pass the status text on
anthropicRelayNoStatusText(response) ==
  LET responseHeaders ==
        SetEach(NewHeaders(response.headers), corsHeaders, DOMAIN corsHeaders)
  IN NewResponse(response.body,
                 [status  |-> response.status,
                  headers |-> responseHeaders])

\* handleAnthropic after the await: the upstream response is relayed with the CORS set
anthropicRelay(response) ==
  LET responseHeaders ==
        SetEach(NewHeaders(response.headers), corsHeaders, DOMAIN corsHeaders)
  IN NewResponse(response.body,
                 [status     |-> response.status,
                  statusText |-> response.statusText,
                  headers    |-> responseHeaders])

\* the catch block that reports the failure as a configuration error
anthropicCatchAsConfigError(error) ==
  NewResponse(JSONstringify([error   |-> "Configuration Error",
                             message |-> error.message]),
              [status |-> 500, headers |-> jsonHeaders])

\* handleAnthropic: the catch block
anthropicCatch(error) ==
  NewResponse(JSONstringify([error   |-> "Proxy Error",
                             message |-> error.message]),
              [status |-> 502, headers |-> jsonHeaders])

\* the health body that names the OpenAI prefix wrongly
healthResponseWrongPrefix(t) ==
  NewResponse(
    JSONstringify([status    |-> "ok",
                   service   |-> "guidedog",
                   timestamp |-> toISOString(t),
                   endpoints |-> [openai |-> "/openai/*",
                                  anthropic |-> "/anthropic/*"]]),
    [headers |-> jsonHeaders])

healthResponse(t) ==
  NewResponse(
    JSONstringify([status    |-> "ok",
                   service   |-> "guidedog",
                   timestamp |-> toISOString(t),
                   endpoints |-> [openai |-> "/v1/*",
                                  anthropic |-> "/anthropic/*"]]),
    [headers |-> jsonHeaders])

notFoundResponse ==
  NewResponse(
    JSONstringify([error   |-> "Not Found",
                   message |-> "Use /v1/* for OpenAI or /anthropic/* for Anthropic"]),
    [status |-> 404, headers |-> jsonHeaders])

\* fetch that answers the preflight only where no route matches
fetchPreflightLast(request, e, t) ==
  LET path == URLpathname(request.url) IN
  IF path = <<"/", "health">> \/ path = <<"/">>
  THEN Return(healthResponse(t))
  ELSE IF startsWith(path, <<"/", "v1", "/">>)
  THEN handleOpenAI(request, e, path)
  ELSE IF startsWith(path, <<"/", "anthropic", "/">>)
  THEN handleAnthropic(request, e, path)
  ELSE IF request.method = "OPTIONS" THEN Return(handleCORS)
  ELSE Return(notFoundResponse)

\* fetch that tests the prefixes without their trailing slash
fetchLoosePrefix(request, e, t) ==
  IF request.method = "OPTIONS" THEN Return(handleCORS)
  ELSE LET path == URLpathname(request.url) IN
       IF path = <<"/", "health">> \/ path = <<"/">>
       THEN Return(healthResponse(t))
       ELSE IF startsWith(path, <<"/", "v1">>)
       THEN handleOpenAI(request, e, path)
       ELSE IF startsWith(path, <<"/", "anthropic">>)
       THEN handleAnthropic(request, e, path)
       ELSE Return(notFoundResponse)

\* fetch that tests the prefixes on the lower-cased path
fetchCaseInsensitive(request, e, t) ==
  IF request.method = "OPTIONS" THEN Return(handleCORS)
  ELSE LET path  == URLpathname(request.url)
           lower == [i \in 1..Len(path) |->
                       IF path[i] = "V1" THEN "v1" ELSE path[i]]
       IN IF path = <<"/", "health">> \/ path = <<"/">>
          THEN Return(healthResponse(t))
          ELSE IF startsWith(lower, <<"/", "v1", "/">>)
          THEN handleOpenAI(request, e, path)
          ELSE IF startsWith(lower, <<"/", "anthropic", "/">>)
          THEN handleAnthropic(request, e, path)
          ELSE Return(notFoundResponse)

\* fetch whose not-found body shows the configured OpenAI key
fetchLeaksKey(request, e, t) ==
  IF request.method = "OPTIONS" THEN Return(handleCORS)
  ELSE LET path == URLpathname(request.url) IN
       IF path = <<"/", "health">> \/ path = <<"/">>
       THEN Return(healthResponse(t))
       ELSE IF startsWith(path, <<"/", "v1", "/">>)
       THEN handleOpenAI(request, e, path)
       ELSE IF startsWith(path, <<"/", "anthropic", "/">>)
       THEN handleAnthropic(request, e, path)
       ELSE Return(NewResponse(
              JSONstringify([error   |-> "Not Found",
                             message |-> "no route; key " \o e.OPENAI_API_KEY]),
              [status |-> 404, headers |-> jsonHeaders]))

\* fetch whose health branch also asks for the method GET
fetchHealthGetOnly(request, e, t) ==
  IF request.method = "OPTIONS" THEN Return(handleCORS)
  ELSE LET path == URLpathname(request.url) IN
       IF request.method = "GET" /\ (path = <<"/", "health">> \/ path = <<"/">>)
       THEN Return(healthResponse(t))
       ELSE IF startsWith(path, <<"/", "v1", "/">>)
       THEN handleOpenAI(request, e, path)
       ELSE IF startsWith(path, <<"/", "anthropic", "/">>)
       THEN handleAnthropic(request, e, path)
       ELSE Return(notFoundResponse)

\* export default { async fetch(request, env, ctx) }, run to its first
\* suspension or to its return; t is the clock reading
fetch(request, e, t) ==
  IF request.method = "OPTIONS" THEN Return(handleCORS)
  ELSE LET path == URLpathname(request.url) IN
       IF path = <<"/", "health">> \/ path = <<"/">>
       THEN Return(healthResponse(t))
       ELSE IF startsWith(path, <<"/", "v1", "/">>)
       THEN handleOpenAI(request, e, path)
       ELSE IF startsWith(path, <<"/", "anthropic", "/">>)
       THEN handleAnthropic(request, e, path)
       ELSE Return(notFoundResponse)

(***************************************************************************)
(* Inputs.                                                                 *)
(***************************************************************************)
Methods == {"GET", "POST", "OPTIONS"}

PathSyms == {"/", "v1", "V1", "anthropic", "health"}

\* a URL path begins with "/"
Paths ==
  {p \in UNION {[1..n -> PathSyms] : n \in 1..MaxPathLen} : p[1] = "/"}

Searches == {<<>>, <<"?", "health">>}

Origin == "https://guidedog.kpremks.workers.dev"

\* the header bags a client sends, as the runtime's Headers objects
ClientHeaders ==
  { <<>>,
    [n \in {"host", "authorization", "content-type"} |->
       CASE n = "host" -> "guidedog.kpremks.workers.dev"
         [] n = "authorization" -> "Bearer client-token"
         [] n = "content-type" -> "application/json"],
    [n \in {"host", "x-api-key", "anthropic-version"} |->
       CASE n = "host" -> "guidedog.kpremks.workers.dev"
         [] n = "x-api-key" -> "client-key"
         [] n = "anthropic-version" -> "2023-01-01"],
    [n \in {"authorization", "x-api-key"} |->
       IF n = "authorization" THEN "Bearer sk-1" ELSE "sk-2"] }

\* a GET or OPTIONS request has no body, a POST has one
RequestBodies(method) ==
  IF method = "POST" THEN {[kind |-> "stream", data |-> "payload"]}
  ELSE {NullBody}

Requests ==
  UNION {[method  : {m},
          url     : {<<Origin>> \o p \o q : p \in Paths, q \in Searches},
          headers : ClientHeaders,
          body    : RequestBodies(m)] : m \in Methods}

KeyValues == {Undefined, "", "sk-1", "sk-2"}

Envs == [OPENAI_API_KEY : KeyValues, ANTHROPIC_API_KEY : KeyValues]

\* what an upstream answers
\* status line: an HTTP/2 upstream sends no reason phrase
UpstreamStatusLines ==
  { <<200, "OK">>, <<200, "">>, <<404, "Not Found">>,
    <<429, "Too Many Requests">>, <<500, "Internal Server Error">>,
    <<502, "Bad Gateway">> }

UpstreamHeaders ==
  { [n \in {"content-type", "x-request-id"} |->
       IF n = "content-type" THEN "text/event-stream" ELSE "req-1"],
    [n \in {"content-type", "access-control-allow-origin",
            "access-control-allow-methods", "access-control-allow-headers"} |->
       CASE n = "content-type" -> "application/json"
         [] n = "access-control-allow-origin" -> "https://platform.openai.com"
         [] n = "access-control-allow-methods" -> "GET"
         [] n = "access-control-allow-headers" -> "authorization"] }

UpstreamBodies == {NullBody, [kind |-> "stream", data |-> "upstream-data"]}

UpstreamResponses ==
  { [status |-> l[1], statusText |-> l[2], headers |-> h, body |-> b] :
      l \in UpstreamStatusLines, h \in UpstreamHeaders, b \in UpstreamBodies }

UpstreamErrors == [message : {"", "fetch failed"}]

Slots == 1..MaxInFlight
Clock == 1..MaxClock

(***************************************************************************)
(* State.                                                                  *)
(***************************************************************************)
VARIABLES
  env,        \* the secrets bound to the worker
  pc,         \* per slot: "idle", "awaitOpenAI", "awaitAnthropic", "responded"
  request,    \* per slot: the inbound request
  call,       \* per slot: the upstream call issued, NoValue if none
  outcome,    \* per slot: what the upstream call gave, NoValue if nothing yet
  response,   \* per slot: the response returned, NoValue if none yet
  calls       \* per slot: upstream calls issued for the request

vars == <<env, pc, request, call, outcome, response, calls>>

Init ==
  /\ env \in Envs
  /\ pc = [r \in Slots |-> "idle"]
  /\ request = [r \in Slots |-> NoValue]
  /\ call = [r \in Slots |-> NoValue]
  /\ outcome = [r \in Slots |-> NoValue]
  /\ response = [r \in Slots |-> NoValue]
  /\ calls = [r \in Slots |-> 0]

\* the OpenAI key kept from a request handled earlier and still in flight
HandleRequestCachedKey(r, reqs) ==
  /\ pc[r] = "idle"
  /\ \E req \in reqs, t \in Clock :
       LET earlier == {s \in Slots \ {r} : pc[s] = "awaitOpenAI"}
           cached  == IF earlier = {} THEN env
                      ELSE LET s == CHOOSE x \in earlier : TRUE
                               k == CHOOSE v \in KeyValues :
                                      call[s].headers["authorization"] = "Bearer " \o v
                           IN [env EXCEPT !.OPENAI_API_KEY = k]
           res == fetch(req, cached, t)
       IN /\ request' = [request EXCEPT ![r] = req]
          /\ IF res.kind = "return"
             THEN /\ pc' = [pc EXCEPT ![r] = "responded"]
                  /\ response' = [response EXCEPT ![r] = res.response]
                  /\ UNCHANGED <<call, calls>>
             ELSE /\ pc' = [pc EXCEPT ![r] =
                             IF res.route = "openai" THEN "awaitOpenAI"
                             ELSE "awaitAnthropic"]
                  /\ call' = [call EXCEPT ![r] = res.call]
                  /\ calls' = [calls EXCEPT ![r] = @ + 1]
                  /\ UNCHANGED response
  /\ UNCHANGED <<env, outcome>>

\* fetch called without await: the handler answers while the call is pending
HandleRequestNoAwait(r, reqs) ==
  /\ pc[r] = "idle"
  /\ \E req \in reqs, t \in Clock :
       LET res == fetch(req, env, t) IN
       /\ request' = [request EXCEPT ![r] = req]
       /\ pc' = [pc EXCEPT ![r] = "responded"]
       /\ IF res.kind = "return"
          THEN /\ response' = [response EXCEPT ![r] = res.response]
               /\ UNCHANGED <<call, calls>>
          ELSE /\ response' = [response EXCEPT ![r] =
                                 NewResponse(NullBody, [headers |-> corsHeaders])]
               /\ call' = [call EXCEPT ![r] = res.call]
               /\ calls' = [calls EXCEPT ![r] = @ + 1]
  /\ UNCHANGED <<env, outcome>>

\* the runtime invokes fetch(request, env, ctx) for an inbound request, one
\* of reqs
HandleRequestFrom(r, reqs) ==
  /\ pc[r] = "idle"
  /\ \E req \in reqs, t \in Clock :
       LET res == fetch(req, env, t) IN
       /\ request' = [request EXCEPT ![r] = req]
       /\ IF res.kind = "return"
          THEN /\ pc' = [pc EXCEPT ![r] = "responded"]
               /\ response' = [response EXCEPT ![r] = res.response]
               /\ UNCHANGED <<call, calls>>
          ELSE /\ pc' = [pc EXCEPT ![r] =
                          IF res.route = "openai" THEN "awaitOpenAI"
                          ELSE "awaitAnthropic"]
               /\ call' = [call EXCEPT ![r] = res.call]
               /\ calls' = [calls EXCEPT ![r] = @ + 1]
               /\ UNCHANGED response
  /\ UNCHANGED <<env, outcome>>

HandleRequest(r) == HandleRequestFrom(r, Requests)

\* the relay kept in a variable of the module, shared by the requests in flight
UpstreamRespondsShared(r, ups) ==
  /\ pc[r] \in {"awaitOpenAI", "awaitAnthropic"}
  /\ \E up \in ups :
       LET waiting == {s \in Slots : pc[s] \in {"awaitOpenAI", "awaitAnthropic"}}
           relayed == IF pc[r] = "awaitOpenAI" THEN openaiRelay(up)
                      ELSE anthropicRelay(up)
       IN /\ outcome' = [s \in Slots |->
                           IF s \in waiting
                           THEN [kind |-> "response", response |-> up]
                           ELSE outcome[s]]
          /\ response' = [s \in Slots |->
                            IF s \in waiting THEN relayed ELSE response[s]]
          /\ pc' = [s \in Slots |->
                      IF s \in waiting THEN "responded" ELSE pc[s]]
  /\ UNCHANGED <<env, request, call, calls>>

\* the awaited upstream call resolves with a response, one of ups
UpstreamRespondsFrom(r, ups) ==
  /\ pc[r] \in {"awaitOpenAI", "awaitAnthropic"}
  /\ \E up \in ups :
       /\ outcome' = [outcome EXCEPT ![r] = [kind |-> "response", response |-> up]]
       /\ response' = [response EXCEPT ![r] =
                         IF pc[r] = "awaitOpenAI" THEN openaiRelay(up)
                         ELSE anthropicRelay(up)]
  /\ pc' = [pc EXCEPT ![r] = "responded"]
  /\ UNCHANGED <<env, request, call, calls>>

UpstreamResponds(r) == UpstreamRespondsFrom(r, UpstreamResponses)

\* the failure left uncaught: the invocation ends without a response
UpstreamThrowsUncaught(r, errs) ==
  /\ pc[r] \in {"awaitOpenAI", "awaitAnthropic"}
  /\ \E err \in errs :
       outcome' = [outcome EXCEPT ![r] = [kind |-> "error", error |-> err]]
  /\ pc' = [pc EXCEPT ![r] = "crashed"]
  /\ UNCHANGED <<env, request, call, calls, response>>

\* the awaited upstream call throws, with one of errs
UpstreamThrowsFrom(r, errs) ==
  /\ pc[r] \in {"awaitOpenAI", "awaitAnthropic"}
  /\ \E err \in errs :
       /\ outcome' = [outcome EXCEPT ![r] = [kind |-> "error", error |-> err]]
       /\ response' = [response EXCEPT ![r] =
                         IF pc[r] = "awaitOpenAI" THEN openaiCatch(err)
                         ELSE anthropicCatch(err)]
  /\ pc' = [pc EXCEPT ![r] = "responded"]
  /\ UNCHANGED <<env, request, call, calls>>

\* the failure path that tries the call once more
UpstreamThrowsRetry(r) ==
  /\ pc[r] \in {"awaitOpenAI", "awaitAnthropic"}
  /\ \E err \in UpstreamErrors :
       /\ outcome' = [outcome EXCEPT ![r] = [kind |-> "error", error |-> err]]
       /\ IF calls[r] < 2
          THEN /\ calls' = [calls EXCEPT ![r] = @ + 1]
               /\ UNCHANGED <<pc, response>>
          ELSE /\ pc' = [pc EXCEPT ![r] = "responded"]
               /\ response' = [response EXCEPT ![r] =
                                 IF pc[r] = "awaitOpenAI" THEN openaiCatch(err)
                                 ELSE anthropicCatch(err)]
               /\ UNCHANGED calls
  /\ UNCHANGED <<env, request, call>>

UpstreamThrows(r) == UpstreamThrowsFrom(r, UpstreamErrors)

\* the response has gone to the client; the request's objects are dropped
Deliver(r) ==
  /\ pc[r] = "responded"
  /\ pc' = [pc EXCEPT ![r] = "idle"]
  /\ request' = [request EXCEPT ![r] = NoValue]
  /\ call' = [call EXCEPT ![r] = NoValue]
  /\ outcome' = [outcome EXCEPT ![r] = NoValue]
  /\ response' = [response EXCEPT ![r] = NoValue]
  /\ calls' = [calls EXCEPT ![r] = 0]
  /\ UNCHANGED env

\* one secret is set, changed or removed in the Cloudflare dashboard
SetSecret ==
  /\ \E name \in {"OPENAI_API_KEY", "ANTHROPIC_API_KEY"}, v \in KeyValues :
       /\ v # env[name]
       /\ env' = [env EXCEPT ![name] = v]
  /\ UNCHANGED <<pc, request, call, outcome, response, calls>>

\* one request at a time, over every input
Next ==
  \/ HandleRequest(1)
  \/ UpstreamResponds(1)
  \/ UpstreamThrows(1)
  \/ Deliver(1)
  \/ SetSecret

Spec == Init /\ [][Next]_vars

(***************************************************************************)
(* Requests in flight together.  The runtime runs any number of            *)
(* invocations of fetch at once, interleaved at their awaits; the inputs   *)
(* are one request per branch of fetch and a few upstream outcomes.        *)
(***************************************************************************)
ConcRequest(m, p, h, b) ==
  [method |-> m, url |-> <<Origin>> \o p, headers |-> h, body |-> b]

ConcRequests ==
  LET bag(names) == CHOOSE h \in ClientHeaders : DOMAIN h = names
      payload == [kind |-> "stream", data |-> "payload"]
  IN { ConcRequest("OPTIONS", <<"/", "v1", "/", "health">>, <<>>, NullBody),
       ConcRequest("GET", <<"/", "health">>, <<>>, NullBody),
       ConcRequest("GET", <<"/", "V1">>, <<>>, NullBody),
       ConcRequest("POST", <<"/", "v1", "/", "health">>,
                   bag({"host", "authorization", "content-type"}), payload),
       ConcRequest("POST", <<"/", "anthropic", "/", "health">>,
                   bag({"host", "x-api-key", "anthropic-version"}), payload) }

ConcUpstreamResponses ==
  { up \in UpstreamResponses :
      \/ up.status = 200 /\ up.statusText = "OK" /\ up.body # NullBody
                          /\ "x-request-id" \in DOMAIN up.headers
      \/ up.status = 500 /\ up.body = NullBody
                          /\ "x-request-id" \notin DOMAIN up.headers }

ConcUpstreamErrors == { err \in UpstreamErrors : err.message # "" }

\* the upstream call of slot r completes or fails
UpstreamCompletes(r) ==
  \/ UpstreamRespondsFrom(r, ConcUpstreamResponses)
  \/ UpstreamThrowsFrom(r, ConcUpstreamErrors)

NextConc ==
  \/ \E r \in Slots : HandleRequestFrom(r, ConcRequests)
  \/ \E r \in Slots : UpstreamRespondsFrom(r, ConcUpstreamResponses)
  \/ \E r \in Slots : UpstreamThrowsFrom(r, ConcUpstreamErrors)
  \/ \E r \in Slots : Deliver(r)
  \/ SetSecret

SpecConc == Init /\ [][NextConc]_vars

\* Requests in flight together under secrets that stay as they are, every
\* upstream call completing or failing in the end: the setting of the
\* termination properties.
LiveRequests ==
  { req \in ConcRequests :
      req.method = "POST" \/ URLpathname(req.url) = <<"/", "V1">> }

NextLive ==
  \/ \E r \in Slots : HandleRequestFrom(r, LiveRequests)
  \/ \E r \in Slots : UpstreamRespondsFrom(r, ConcUpstreamResponses)
  \/ \E r \in Slots : UpstreamThrowsFrom(r, ConcUpstreamErrors)
  \/ \E r \in Slots : Deliver(r)

SpecLive ==
  /\ Init
  /\ [][NextLive]_vars
  /\ \A r \in Slots : WF_vars(UpstreamCompletes(r))

TypeOK ==
  /\ env \in Envs
  /\ \A r \in Slots :
       /\ pc[r] \in {"idle", "awaitOpenAI", "awaitAnthropic", "responded"}
       /\ calls[r] \in 0..1

(***************************************************************************)
(* Vocabulary of the properties, stated on the request and the response    *)
(* themselves rather than through the worker's own operators.              *)
(***************************************************************************)
Active(r) == pc[r] # "idle"
Responded(r) == pc[r] = "responded"

\* the path the client asked for: the URL without origin and query string
PathOf(req) ==
  LET u == req.url
      n == IF \E i \in 1..Len(u) : u[i] = "?"
           THEN (CHOOSE i \in 1..Len(u) : u[i] = "?") - 1
           ELSE Len(u)
  IN [i \in 1..(n - 1) |-> u[i + 1]]

IsHealthPath(p) == Len(p) = 1 \/ (Len(p) = 2 /\ p[2] = "health")
IsOpenAIPath(p) == Len(p) >= 3 /\ p[2] = "v1" /\ p[3] = "/"
IsAnthropicPath(p) == Len(p) >= 3 /\ p[2] = "anthropic" /\ p[3] = "/"

CorsNames ==
  {"access-control-allow-origin", "access-control-allow-methods",
   "access-control-allow-headers"}

CarriesCors(resp) ==
  /\ CorsNames \subseteq DOMAIN resp.headers
  /\ resp.headers["access-control-allow-origin"] = "*"
  /\ resp.headers["access-control-allow-methods"] = "GET, POST, PUT, DELETE, OPTIONS"
  /\ resp.headers["access-control-allow-headers"] =
       "Content-Type, Authorization, X-Requested-With"

\* the response body is JSON text with the given error field
IsJsonError(resp, err) ==
  /\ resp.body.kind = "text"
  /\ "error" \in DOMAIN resp.body.json
  /\ resp.body.json.error = err

KeySet(k) == k # Undefined /\ k # ""

\* the step in which slot r takes in a request
Receives(r) == pc[r] = "idle" /\ pc'[r] # "idle"

(***************************************************************************)
(* C1: every response the proxy returns, whatever the method, path, keys   *)
(* and upstream outcome, carries Access-Control-Allow-Origin: * and the    *)
(* fixed Allow-Methods and Allow-Headers values; on a relayed response     *)
(* these replace the CORS values the upstream sent.                        *)
(***************************************************************************)
C1_CorsOnEveryResponse ==
  \A r \in Slots : Responded(r) => CarriesCors(response[r])

\* a relayed response whose upstream sent CORS values of its own
C1_Witness ==
  \E r \in Slots :
    /\ Responded(r)
    /\ outcome[r] # NoValue
    /\ outcome[r].kind = "response"
    /\ "access-control-allow-origin" \in DOMAIN outcome[r].response.headers
    /\ outcome[r].response.headers["access-control-allow-origin"] # "*"
    /\ response[r].headers["access-control-allow-origin"] = "*"

(***************************************************************************)
(* C2: an OPTIONS request, to any path and under any keys, gets 204 with   *)
(* an empty body and only the CORS header set, and no upstream call is     *)
(* made for it.                                                            *)
(***************************************************************************)
C2_PreflightAnyPath ==
  \A r \in Slots :
    (Active(r) /\ request[r].method = "OPTIONS") =>
      /\ Responded(r)
      /\ response[r].status = 204
      /\ response[r].body = NullBody
      /\ DOMAIN response[r].headers = CorsNames
      /\ CarriesCors(response[r])
      /\ calls[r] = 0
      /\ call[r] = NoValue

\* a preflight to a forwarding path while that route's key is configured
C2_Witness ==
  \E r \in Slots :
    /\ Responded(r)
    /\ request[r].method = "OPTIONS"
    /\ IsOpenAIPath(PathOf(request[r]))
    /\ KeySet(env.OPENAI_API_KEY)
    /\ response[r].status = 204

(***************************************************************************)
(* C3: a non-OPTIONS request whose path neither starts with /v1/ or        *)
(* /anthropic/ nor equals / or /health gets 404 with the JSON not-found    *)
(* body and the CORS headers, without an upstream call, whatever the keys. *)
(***************************************************************************)
C3_UnmatchedPath404 ==
  \A r \in Slots :
    (/\ Active(r)
     /\ request[r].method # "OPTIONS"
     /\ ~IsHealthPath(PathOf(request[r]))
     /\ ~IsOpenAIPath(PathOf(request[r]))
     /\ ~IsAnthropicPath(PathOf(request[r]))) =>
      /\ Responded(r)
      /\ response[r].status = 404
      /\ IsJsonError(response[r], "Not Found")
      /\ response[r].headers["content-type"] = "application/json"
      /\ CarriesCors(response[r])
      /\ calls[r] = 0
      /\ call[r] = NoValue

\* the path /v1, a forwarding prefix without its slash, while the key is set
C3_Witness ==
  \E r \in Slots :
    /\ Responded(r)
    /\ request[r].method = "POST"
    /\ PathOf(request[r]) = <<"/", "v1">>
    /\ KeySet(env.OPENAI_API_KEY)
    /\ response[r].status = 404

(***************************************************************************)
(* C4: a GET to / or /health gets 200 and a JSON body with status,         *)
(* service, timestamp, endpoints.openai = "/v1/*" and endpoints.anthropic  *)
(* = "/anthropic/*"; no upstream call is made, whichever keys are set.     *)
(***************************************************************************)
C4_Health ==
  \A r \in Slots :
    (/\ Active(r)
     /\ request[r].method = "GET"
     /\ IsHealthPath(PathOf(request[r]))) =>
      /\ Responded(r)
      /\ response[r].status = 200
      /\ response[r].body.kind = "text"
      /\ {"status", "service", "timestamp", "endpoints"}
           \subseteq DOMAIN response[r].body.json
      /\ response[r].body.json.endpoints.openai = "/v1/*"
      /\ response[r].body.json.endpoints.anthropic = "/anthropic/*"
      /\ calls[r] = 0
      /\ call[r] = NoValue

\* a health check answered while neither key is configured
C4_Witness ==
  \E r \in Slots :
    /\ Responded(r)
    /\ request[r].method = "GET"
    /\ PathOf(request[r]) = <<"/", "health">>
    /\ env.OPENAI_API_KEY = Undefined
    /\ env.ANTHROPIC_API_KEY = Undefined
    /\ response[r].status = 200
    /\ response[r].body.json.endpoints.openai = "/v1/*"

(***************************************************************************)
(* C5: on either forwarding route, a non-OPTIONS request handled while     *)
(* that route's key is absent gets 500 with a JSON body whose error is     *)
(* "Configuration Error", and no upstream call is ever attempted for it.   *)
(***************************************************************************)
ConfigErrorNow(r) ==
  /\ Responded(r)'
  /\ response'[r].status = 500
  /\ IsJsonError(response'[r], "Configuration Error")
  /\ calls'[r] = 0
  /\ call'[r] = NoValue

C5_MissingKey500 ==
  [][\A r \in Slots :
       /\ (/\ Receives(r)
           /\ request'[r].method # "OPTIONS"
           /\ \/ /\ IsOpenAIPath(PathOf(request'[r]))
                 /\ env.OPENAI_API_KEY = Undefined
              \/ /\ IsAnthropicPath(PathOf(request'[r]))
                 /\ env.ANTHROPIC_API_KEY = Undefined)
          => ConfigErrorNow(r)
       /\ (/\ Responded(r)
           /\ IsJsonError(response[r], "Configuration Error")
           /\ Active(r)')
          => (calls'[r] = 0 /\ call'[r] = NoValue)]_vars

\* both routes answered 500 for want of their key, the other key being set
C5_Witness ==
  \E r \in Slots :
    /\ Responded(r)
    /\ request[r].method = "POST"
    /\ IsJsonError(response[r], "Configuration Error")
    /\ \/ /\ IsOpenAIPath(PathOf(request[r]))
          /\ env.OPENAI_API_KEY = Undefined
          /\ KeySet(env.ANTHROPIC_API_KEY)
       \/ /\ IsAnthropicPath(PathOf(request[r]))
          /\ env.ANTHROPIC_API_KEY = Undefined
          /\ KeySet(env.OPENAI_API_KEY)

(***************************************************************************)
(* C6: with the OpenAI key set, a non-OPTIONS request whose path P starts  *)
(* with /v1/ is forwarded to https://api.openai.com followed by P itself,  *)
(* with Authorization "Bearer <configured key>" whatever Authorization the *)
(* client sent, and with no Host header.                                   *)
(***************************************************************************)
C6_OpenAIForward ==
  [][\A r \in Slots :
       (/\ Receives(r)
        /\ request'[r].method # "OPTIONS"
        /\ IsOpenAIPath(PathOf(request'[r]))
        /\ KeySet(env.OPENAI_API_KEY)) =>
         /\ pc'[r] = "awaitOpenAI"
         /\ calls'[r] = 1
         /\ call'[r].url = <<"https://api.openai.com">> \o PathOf(request'[r])
         /\ "authorization" \in DOMAIN call'[r].headers
         /\ call'[r].headers["authorization"] = "Bearer " \o env.OPENAI_API_KEY
         /\ "host" \notin DOMAIN call'[r].headers]_vars

\* a forwarded request whose client sent another Authorization and a Host
C6_Witness ==
  \E r \in Slots :
    /\ pc[r] = "awaitOpenAI"
    /\ "authorization" \in DOMAIN request[r].headers
    /\ "host" \in DOMAIN request[r].headers
    /\ request[r].headers["authorization"] # call[r].headers["authorization"]
    /\ call[r].url = <<"https://api.openai.com", "/", "v1", "/", "health">>

(***************************************************************************)
(* C7: with the Anthropic key set, a non-OPTIONS request to /anthropic     *)
(* followed by a remainder R beginning with / is forwarded to              *)
(* https://api.anthropic.com followed by R: the leading /anthropic is      *)
(* removed once, a later /anthropic in R is kept; x-api-key is the         *)
(* configured key whatever the client sent, anthropic-version is           *)
(* 2023-06-01, and there is no Host header.                                *)
(***************************************************************************)
C7_AnthropicForward ==
  [][\A r \in Slots :
       (/\ Receives(r)
        /\ request'[r].method # "OPTIONS"
        /\ IsAnthropicPath(PathOf(request'[r]))
        /\ KeySet(env.ANTHROPIC_API_KEY)) =>
         LET P == PathOf(request'[r])
             R == [i \in 1..(Len(P) - 2) |-> P[i + 2]]
         IN /\ pc'[r] = "awaitAnthropic"
            /\ calls'[r] = 1
            /\ call'[r].url = <<"https://api.anthropic.com">> \o R
            /\ {"x-api-key", "anthropic-version"} \subseteq DOMAIN call'[r].headers
            /\ call'[r].headers["x-api-key"] = env.ANTHROPIC_API_KEY
            /\ call'[r].headers["anthropic-version"] = "2023-06-01"
            /\ "host" \notin DOMAIN call'[r].headers]_vars

\* /anthropic/anthropic forwarded as /anthropic, the client's x-api-key and
\* anthropic-version overwritten
C7_Witness ==
  \E r \in Slots :
    /\ pc[r] = "awaitAnthropic"
    /\ PathOf(request[r]) = <<"/", "anthropic", "/", "anthropic">>
    /\ call[r].url = <<"https://api.anthropic.com", "/", "anthropic">>
    /\ "x-api-key" \in DOMAIN request[r].headers
    /\ "anthropic-version" \in DOMAIN request[r].headers
    /\ request[r].headers["x-api-key"] # call[r].headers["x-api-key"]
    /\ request[r].headers["anthropic-version"] # "2023-06-01"

(***************************************************************************)
(* C8: when the upstream call completes, the upstream status, status text  *)
(* and body are relayed unchanged for every upstream status, 4xx and 5xx   *)
(* included, and every upstream header other than the three CORS names     *)
(* keeps its upstream value.                                               *)
(***************************************************************************)
C8_RelayUnchanged ==
  \A r \in Slots :
    (Active(r) /\ outcome[r] # NoValue /\ outcome[r].kind = "response") =>
      LET up == outcome[r].response IN
      /\ Responded(r)
      /\ response[r].status = up.status
      /\ response[r].statusText = up.statusText
      /\ response[r].body = up.body
      /\ \A n \in DOMAIN up.headers \ CorsNames :
           /\ n \in DOMAIN response[r].headers
           /\ response[r].headers[n] = up.headers[n]

\* an upstream 502 with its own headers relayed on the Anthropic route
C8_Witness ==
  \E r \in Slots :
    /\ Responded(r)
    /\ outcome[r] # NoValue
    /\ outcome[r].kind = "response"
    /\ IsAnthropicPath(PathOf(request[r]))
    /\ response[r].status = 502
    /\ response[r].statusText = "Bad Gateway"
    /\ response[r].body.kind = "stream"
    /\ "x-request-id" \in DOMAIN response[r].headers

(***************************************************************************)
(* C9: on either route with the key set, when the upstream call throws,    *)
(* the proxy answers 502 with a JSON body whose error is "Proxy Error" and *)
(* whose message is the message of the failure.                            *)
(***************************************************************************)
C9_ProxyError502 ==
  \A r \in Slots :
    (Active(r) /\ outcome[r] # NoValue /\ outcome[r].kind = "error") =>
      /\ Responded(r)
      /\ response[r].status = 502
      /\ IsJsonError(response[r], "Proxy Error")
      /\ response[r].body.json.message = outcome[r].error.message

\* a failed call on the OpenAI route, reported with the failure's message
C9_Witness ==
  \E r \in Slots :
    /\ Responded(r)
    /\ outcome[r] # NoValue
    /\ outcome[r].kind = "error"
    /\ outcome[r].error.message = "fetch failed"
    /\ IsOpenAIPath(PathOf(request[r]))
    /\ response[r].status = 502

(***************************************************************************)
(* C10: no retry.  Over the handling of one request at most one upstream   *)
(* call is issued, none at all for the preflight, health, not-found and    *)
(* configuration-error outcomes, and after an upstream failure the 502 is  *)
(* returned without a second attempt.                                      *)
(***************************************************************************)
C10_NoRetry ==
  \A r \in Slots :
    /\ calls[r] <= 1
    /\ (Responded(r) /\ outcome[r] = NoValue) =>
         /\ calls[r] = 0
         /\ \/ response[r].status = 204
            \/ IsJsonError(response[r], "Not Found")
            \/ IsJsonError(response[r], "Configuration Error")
            \/ (response[r].status = 200 /\ response[r].body.kind = "text")
    /\ (Responded(r) /\ outcome[r] # NoValue) => calls[r] = 1
    /\ (Active(r) /\ outcome[r] # NoValue /\ outcome[r].kind = "error") =>
         (Responded(r) /\ response[r].status = 502)

\* a 502 returned after a single failed upstream call
C10_Witness ==
  \E r \in Slots :
    /\ Responded(r)
    /\ outcome[r] # NoValue
    /\ outcome[r].kind = "error"
    /\ calls[r] = 1
    /\ response[r].status = 502

(***************************************************************************)
(* C11: the upstream request of a forwarded call has the method of the     *)
(* inbound request and, for every method other than GET, the inbound       *)
(* request's body; a forwarded GET carries no body.                        *)
(***************************************************************************)
C11_MethodAndBody ==
  \A r \in Slots :
    (Active(r) /\ call[r] # NoValue) =>
      /\ call[r].method = request[r].method
      /\ request[r].method # "GET" => call[r].body = request[r].body
      /\ request[r].method = "GET" => call[r].body.kind \in {"undefined", "null"}

\* a POST forwarded with its payload
C11_Witness ==
  \E r \in Slots :
    /\ pc[r] = "awaitOpenAI"
    /\ request[r].method = "POST"
    /\ request[r].body.kind = "stream"
    /\ call[r].method = "POST"
    /\ call[r].body = request[r].body

(***************************************************************************)
(* C12: header frame of forwarding.  Every inbound header reaches the      *)
(* upstream request with its value unchanged, except that the OpenAI route *)
(* overwrites only Authorization and removes Host, and the Anthropic route *)
(* overwrites only x-api-key and anthropic-version and removes Host; the   *)
(* inbound request's own headers are left as they were.                    *)
(***************************************************************************)
HeaderFrame(r) ==
  (Active(r) /\ call[r] # NoValue) =>
    LET inbound == request[r].headers
        sent    == call[r].headers
        written == IF call[r].url[1] = "https://api.openai.com"
                   THEN {"authorization"}
                   ELSE {"x-api-key", "anthropic-version"}
    IN /\ DOMAIN sent = (DOMAIN inbound \cup written) \ {"host"}
       /\ \A n \in DOMAIN inbound \ (written \cup {"host"}) :
            sent[n] = inbound[n]

C12_HeaderFrame ==
  [][\A r \in Slots :
       /\ HeaderFrame(r)'
       /\ (Active(r) /\ Active(r)') => request'[r] = request[r]]_vars

\* a client's x-api-key and anthropic-version passed on untouched by the
\* OpenAI route, its Host removed, the request still holding all three
C12_Witness ==
  \E r \in Slots :
    /\ pc[r] = "awaitOpenAI"
    /\ DOMAIN request[r].headers = {"host", "x-api-key", "anthropic-version"}
    /\ DOMAIN call[r].headers = {"authorization", "x-api-key", "anthropic-version"}
    /\ call[r].headers["x-api-key"] = "client-key"
    /\ call[r].headers["anthropic-version"] = "2023-01-01"

(***************************************************************************)
(* C13: requests are handled independently and statelessly.  Under any     *)
(* interleaving of concurrent requests a step of one request changes       *)
(* nothing of another, a change of the secrets changes no request in       *)
(* flight, and the response of a request is determined by that request,    *)
(* the configuration it was handled under and the outcome of its own       *)
(* upstream call (and the clock, for the health timestamp): requests equal *)
(* in these get equal responses, whatever was answered to others before.   *)
(***************************************************************************)
SlotState(r) ==
  <<pc[r], request[r], call[r], outcome[r], response[r], calls[r]>>

\* the response with the health timestamp blanked
Untimed(resp) ==
  IF resp.body.kind = "text" /\ "timestamp" \in DOMAIN resp.body.json
  THEN [resp EXCEPT !.body.json.timestamp = [iso |-> 0]]
  ELSE resp

SameHandling(r, s) ==
  /\ request[r] = request[s]
  /\ call[r] = call[s]
  /\ outcome[r] = outcome[s]

Deterministic ==
  \A r, s \in Slots :
    (Responded(r) /\ Responded(s) /\ SameHandling(r, s)) =>
      Untimed(response[r]) = Untimed(response[s])

C13_Independent ==
  [][/\ \A r, s \in Slots :
          (r # s /\ SlotState(r)' # SlotState(r)) => SlotState(s)' = SlotState(s)
     /\ env' # env => \A r \in Slots : SlotState(r)' = SlotState(r)
     /\ Deterministic']_vars

\* the same request in two slots, one answered 502 after its call failed,
\* the other relaying its own upstream response
C13_Witness ==
  \E r, s \in Slots :
    /\ r # s
    /\ Responded(r) /\ Responded(s)
    /\ request[r] = request[s]
    /\ outcome[r] # NoValue /\ outcome[r].kind = "error"
    /\ outcome[s] # NoValue /\ outcome[s].kind = "response"
    /\ response[r].status = 502
    /\ response[s].status = 200

(***************************************************************************)
(* C14: a forwarded request is answered only after its upstream call has   *)
(* completed or failed.  While the call is pending there is no response    *)
(* and the call is not given up (no timeout): the only step the request    *)
(* takes is the completion or failure of the call, so a request whose      *)
(* call never completes is never answered.                                 *)
(***************************************************************************)
Pending(r) == pc[r] \in {"awaitOpenAI", "awaitAnthropic"}

AnsweredAfterCall(r) ==
  /\ Pending(r) => (response[r] = NoValue /\ outcome[r] = NoValue)
  /\ (Responded(r) /\ call[r] # NoValue) => outcome[r] # NoValue

C14_WaitsForUpstream ==
  [][\A r \in Slots :
       /\ AnsweredAfterCall(r)'
       /\ (Pending(r) /\ SlotState(r)' # SlotState(r)) =>
            /\ outcome'[r] # NoValue
            /\ Responded(r)'
            /\ call'[r] = call[r]
            /\ request'[r] = request[r]]_vars

\* a call still pending, unanswered, after its key was removed
C14_Witness ==
  \E r \in Slots :
    /\ pc[r] = "awaitAnthropic"
    /\ calls[r] = 1
    /\ response[r] = NoValue
    /\ outcome[r] = NoValue
    /\ env.ANTHROPIC_API_KEY = Undefined

(***************************************************************************)
(* C15, as stated: the health JSON is served only for GET on / or /health; *)
(* a non-GET, non-OPTIONS request to / or /health gets the 404 not-found   *)
(* JSON.  The health branch of fetch tests the path alone, so this fails.  *)
(***************************************************************************)
IsHealthJson(resp) ==
  /\ resp.body.kind = "text"
  /\ {"status", "service", "timestamp", "endpoints"} \subseteq DOMAIN resp.body.json
  /\ resp.body.json.status = "ok"
  /\ resp.body.json.service = "guidedog"

C15_HealthOnlyForGet ==
  \A r \in Slots :
    (/\ Active(r)
     /\ request[r].method \notin {"GET", "OPTIONS"}
     /\ IsHealthPath(PathOf(request[r]))) =>
      /\ Responded(r)
      /\ response[r].status = 404
      /\ IsJsonError(response[r], "Not Found")

(***************************************************************************)
(* C15, amended: the health JSON is served for every method other than     *)
(* OPTIONS on / or /health, and nowhere else: a POST to / or /health gets  *)
(* the same 200 health JSON as a GET, not the 404.                         *)
(***************************************************************************)
C15_HealthAnyMethod ==
  \A r \in Slots :
    /\ (/\ Active(r)
        /\ request[r].method # "OPTIONS"
        /\ IsHealthPath(PathOf(request[r]))) =>
         /\ Responded(r)
         /\ response[r].status = 200
         /\ IsHealthJson(response[r])
    /\ (Responded(r) /\ IsHealthJson(response[r])) =>
         /\ request[r].method # "OPTIONS"
         /\ IsHealthPath(PathOf(request[r]))

\* a POST to /health answered with the health JSON
C15_Witness ==
  \E r \in Slots :
    /\ Responded(r)
    /\ request[r].method = "POST"
    /\ PathOf(request[r]) = <<"/", "health">>
    /\ response[r].status = 200
    /\ IsHealthJson(response[r])

(***************************************************************************)
(* C16: every inbound request receives exactly one response.  A request    *)
(* that is not forwarded (preflight, health, not found, missing key) is    *)
(* answered in the step that takes it in; a response once given is not     *)
(* replaced; and a forwarded request is answered in the end, provided its  *)
(* upstream call completes or fails in the end.                            *)
(***************************************************************************)
NotForwarded(req, e) ==
  LET p == PathOf(req) IN
  \/ req.method = "OPTIONS"
  \/ IsHealthPath(p)
  \/ ~IsOpenAIPath(p) /\ ~IsAnthropicPath(p)
  \/ IsOpenAIPath(p) /\ ~KeySet(e.OPENAI_API_KEY)
  \/ IsAnthropicPath(p) /\ ~KeySet(e.ANTHROPIC_API_KEY)

ProxyStatuses == {200, 204, 404, 500, 502}

C17_ErrorCauses ==
  [][\A r \in Slots :
       (response[r] = NoValue /\ response'[r] # NoValue) =>
         LET resp == response'[r]
             req  == request'[r]
             p    == PathOf(req)
             own  == outcome'[r] = NoValue \/ outcome'[r].kind = "error"
         IN /\ IsJsonError(resp, "Configuration Error") =>
                 /\ resp.status = 500
                 /\ Receives(r)
                 /\ req.method # "OPTIONS"
                 /\ \/ IsOpenAIPath(p) /\ ~KeySet(env.OPENAI_API_KEY)
                    \/ IsAnthropicPath(p) /\ ~KeySet(env.ANTHROPIC_API_KEY)
            /\ IsJsonError(resp, "Proxy Error") =>
                 /\ resp.status = 502
                 /\ Pending(r)
                 /\ outcome'[r] # NoValue
                 /\ outcome'[r].kind = "error"
            /\ IsJsonError(resp, "Not Found") =>
                 /\ resp.status = 404
                 /\ Receives(r)
                 /\ req.method # "OPTIONS"
                 /\ ~IsHealthPath(p) /\ ~IsOpenAIPath(p) /\ ~IsAnthropicPath(p)
            /\ own => resp.status \in ProxyStatuses
            /\ resp.status \notin ProxyStatuses =>
                 /\ outcome'[r] # NoValue
                 /\ outcome'[r].kind = "response"
                 /\ resp.status = outcome'[r].response.status]_vars

\* an upstream 429, a status the proxy never writes itself, relayed
C17_Witness ==
  \E r \in Slots :
    /\ Responded(r)
    /\ response[r].status = 429
    /\ outcome[r] # NoValue
    /\ outcome[r].kind = "response"
    /\ outcome[r].response.status = 429

(***************************************************************************)
(* C18: the API key is read per request and not retained.  The key a       *)
(* forwarded request is sent with, or is found to lack, is the value       *)
(* configured as that request is handled: a request arriving after the key *)
(* was set, changed or removed sees the new value, however earlier         *)
(* requests, still in flight or not, were answered.                        *)
(***************************************************************************)
C18_KeyReadPerRequest ==
  [][\A r \in Slots :
       (Receives(r) /\ request'[r].method # "OPTIONS") =>
         LET p == PathOf(request'[r]) IN
         /\ IsOpenAIPath(p) =>
              IF KeySet(env.OPENAI_API_KEY)
              THEN /\ pc'[r] = "awaitOpenAI"
                   /\ "authorization" \in DOMAIN call'[r].headers
                   /\ call'[r].headers["authorization"] =
                        "Bearer " \o env.OPENAI_API_KEY
              ELSE /\ Responded(r)'
                   /\ IsJsonError(response'[r], "Configuration Error")
         /\ IsAnthropicPath(p) =>
              IF KeySet(env.ANTHROPIC_API_KEY)
              THEN /\ pc'[r] = "awaitAnthropic"
                   /\ "x-api-key" \in DOMAIN call'[r].headers
                   /\ call'[r].headers["x-api-key"] = env.ANTHROPIC_API_KEY
              ELSE /\ Responded(r)'
                   /\ IsJsonError(response'[r], "Configuration Error")]_vars

\* two requests in flight on the OpenAI route carrying different keys, the
\* key having been changed between them and removed since
C18_Witness ==
  \E r, s \in Slots :
    /\ pc[r] = "awaitOpenAI" /\ pc[s] = "awaitOpenAI"
    /\ call[r].headers["authorization"] # call[s].headers["authorization"]
    /\ env.OPENAI_API_KEY = Undefined

(***************************************************************************)
(* C19: credential isolation.  The headers the proxy writes on a call to   *)
(* https://api.openai.com are Authorization with the OpenAI key and        *)
(* nothing else, those it writes on a call to https://api.anthropic.com    *)
(* are x-api-key with the Anthropic key and the version; and a response    *)
(* the proxy writes itself without an upstream call (health, preflight,    *)
(* 404, 500) does not depend on the values of the keys: the same request   *)
(* answered with the same status under other keys gets the same response.  *)
(***************************************************************************)
\* the headers of the upstream call that the inbound request did not have so
WrittenHeaders(req, c) ==
  {n \in DOMAIN c.headers :
     n \notin DOMAIN req.headers \/ c.headers[n] # req.headers[n]}

KeyPlacement(req, c, e) ==
  LET written == WrittenHeaders(req, c) IN
  \/ /\ c.url[1] = "https://api.openai.com"
     /\ IsOpenAIPath(PathOf(req))
     /\ written \subseteq {"authorization"}
     /\ "authorization" \in DOMAIN c.headers
     /\ c.headers["authorization"] = "Bearer " \o e.OPENAI_API_KEY
  \/ /\ c.url[1] = "https://api.anthropic.com"
     /\ IsAnthropicPath(PathOf(req))
     /\ written \subseteq {"x-api-key", "anthropic-version"}
     /\ "x-api-key" \in DOMAIN c.headers
     /\ c.headers["x-api-key"] = e.ANTHROPIC_API_KEY

KeyBlind ==
  \A r, s \in Slots :
    (/\ Responded(r) /\ Responded(s)
     /\ outcome[r] = NoValue /\ outcome[s] = NoValue
     /\ request[r] = request[s]
     /\ response[r].status = response[s].status) =>
      Untimed(response[r]) = Untimed(response[s])

C19_CredentialIsolation ==
  [][/\ \A r \in Slots :
          (Receives(r) /\ call'[r] # NoValue) =>
            KeyPlacement(request'[r], call'[r], env)
     /\ KeyBlind']_vars

\* both keys in flight at once, each on a call to its own provider
C19_Witness ==
  \E r, s \in Slots :
    /\ pc[r] = "awaitOpenAI" /\ pc[s] = "awaitAnthropic"
    /\ call[r].url[1] = "https://api.openai.com"
    /\ DOMAIN call[r].headers \cap {"authorization", "x-api-key"} = {"authorization"}
    /\ call[r].headers["authorization"] = "Bearer sk-1"
    /\ call[s].url[1] = "https://api.anthropic.com"
    /\ DOMAIN call[s].headers \cap {"authorization", "x-api-key"} = {"x-api-key"}
    /\ call[s].headers["x-api-key"] = "sk-2"

(***************************************************************************)
(* C20: routing is total and deterministic with a fixed precedence.  Every *)
(* request is handled by exactly one of five branches, tried in the order  *)
(* OPTIONS preflight, health path, /v1/ prefix, /anthropic/ prefix, not    *)
(* found; the prefix test is case-sensitive and needs the trailing slash,  *)
(* so /v1, /anthropic and /V1/x match no forwarding route and get 404.     *)
(***************************************************************************)
\* the branch the request is to take
RouteOf(req) ==
  LET p == PathOf(req) IN
  IF req.method = "OPTIONS" THEN "preflight"
  ELSE IF IsHealthPath(p) THEN "health"
  ELSE IF IsOpenAIPath(p) THEN "openai"
  ELSE IF IsAnthropicPath(p) THEN "anthropic"
  ELSE "notfound"

\* the branches whose effect slot r shows
RoutesTaken(r) ==
  LET direct == Responded(r) /\ call[r] = NoValue IN
  {b \in {"preflight", "health", "openai", "anthropic", "notfound"} :
     CASE b = "preflight" ->
            direct /\ response[r].status = 204 /\ response[r].body = NullBody
       [] b = "health" -> direct /\ IsHealthJson(response[r])
       [] b = "openai" ->
            \/ call[r] # NoValue /\ call[r].url[1] = "https://api.openai.com"
            \/ /\ direct
               /\ IsJsonError(response[r], "Configuration Error")
               /\ response[r].body.json.message =
                    "OPENAI_API_KEY not configured in worker secrets"
       [] b = "anthropic" ->
            \/ call[r] # NoValue /\ call[r].url[1] = "https://api.anthropic.com"
            \/ /\ direct
               /\ IsJsonError(response[r], "Configuration Error")
               /\ response[r].body.json.message =
                    "ANTHROPIC_API_KEY not configured in worker secrets"
       [] b = "notfound" -> direct /\ IsJsonError(response[r], "Not Found")}

NearMiss(p) ==
  \/ p = <<"/", "v1">>
  \/ p = <<"/", "anthropic">>
  \/ Len(p) >= 3 /\ p[2] = "V1" /\ p[3] = "/"

C20_RoutingPrecedence ==
  \A r \in Slots :
    Active(r) =>
      /\ RoutesTaken(r) = {RouteOf(request[r])}
      /\ (request[r].method # "OPTIONS" /\ NearMiss(PathOf(request[r]))) =>
           (Responded(r) /\ response[r].status = 404)

\* /V1/health, the prefix in the wrong case, answered 404 with the key set
C20_Witness ==
  \E r \in Slots :
    /\ Responded(r)
    /\ request[r].method = "POST"
    /\ PathOf(request[r]) = <<"/", "V1", "/", "health">>
    /\ KeySet(env.OPENAI_API_KEY)
    /\ response[r].status = 404
    /\ RoutesTaken(r) = {"notfound"}

(***************************************************************************)
(* C21: the two routes' keys are independent.  What a non-OPTIONS request  *)
(* on /v1/* gets at the step that handles it is fixed by the request and   *)
(* the OpenAI key alone, and what a request on /anthropic/* gets by the    *)
(* request and the Anthropic key alone: with its own key set the request   *)
(* is forwarded with that key whether or not the other key is set, and     *)
(* without its own key it gets the 500 that names its own key whether or   *)
(* not the other key is set.                                               *)
(***************************************************************************)
\* the headers of the upstream call as a function of the inbound headers H
\* and the values W the route writes
CallHeaders(H, W) ==
  [n \in (DOMAIN H \ {"host"}) \cup DOMAIN W |->
     IF n \in DOMAIN W THEN W[n] ELSE H[n]]

\* slot r has just been given the outcome that route's own key k fixes
OwnKeyOutcome(r, k, keyName, target, written) ==
  IF KeySet(k)
  THEN /\ pc'[r] = target
       /\ calls'[r] = 1
       /\ response'[r] = NoValue
       /\ call'[r].method = request'[r].method
       /\ call'[r].headers = CallHeaders(request'[r].headers, written)
  ELSE /\ Responded(r)'
       /\ calls'[r] = 0
       /\ call'[r] = NoValue
       /\ response'[r].status = 500
       /\ IsJsonError(response'[r], "Configuration Error")
       /\ response'[r].body.json.message =
            keyName \o " not configured in worker secrets"

C21_KeysIndependent ==
  [][\A r \in Slots :
       (Receives(r) /\ request'[r].method # "OPTIONS") =>
         LET p == PathOf(request'[r]) IN
         /\ IsOpenAIPath(p) =>
              OwnKeyOutcome(r, env.OPENAI_API_KEY, "OPENAI_API_KEY", "awaitOpenAI",
                [n \in {"authorization"} |-> "Bearer " \o env.OPENAI_API_KEY])
         /\ IsAnthropicPath(p) =>
              OwnKeyOutcome(r, env.ANTHROPIC_API_KEY, "ANTHROPIC_API_KEY",
                "awaitAnthropic",
                [n \in {"x-api-key", "anthropic-version"} |->
                   IF n = "x-api-key" THEN env.ANTHROPIC_API_KEY
                   ELSE "2023-06-01"])]_vars

\* a request forwarded on one route with that route's key while the other
\* route's key is absent
C21_Witness ==
  \E r \in Slots :
    /\ pc[r] = "awaitAnthropic"
    /\ IsAnthropicPath(PathOf(request[r]))
    /\ env.OPENAI_API_KEY = Undefined
    /\ env.ANTHROPIC_API_KEY = "sk-2"
    /\ "x-api-key" \in DOMAIN call[r].headers
    /\ call[r].headers["x-api-key"] = "sk-2"

(***************************************************************************)
(* C22: a key configured as the empty string is treated exactly like an    *)
(* absent key.  A non-OPTIONS request on a forwarding route handled while  *)
(* that route's key is "" gets the 500 "Configuration Error" response that *)
(* an absent key gets, message included, and no upstream call is made for  *)
(* it; and no upstream call ever carries an empty credential, neither      *)
(* "Bearer " on a call to OpenAI nor an empty x-api-key on a call to       *)
(* Anthropic.                                                              *)
(***************************************************************************)
\* the response of lines 71-77 / 121-127, whole
ConfigErrorResponse(resp, keyName) ==
  /\ resp.status = 500
  /\ resp.statusText = ""
  /\ IsJsonError(resp, "Configuration Error")
  /\ DOMAIN resp.body.json = {"error", "message"}
  /\ resp.body.json.message = keyName \o " not configured in worker secrets"
  /\ DOMAIN resp.headers = CorsNames \cup {"content-type"}
  /\ resp.headers["content-type"] = "application/json"
  /\ CarriesCors(resp)

NoEmptyCredential ==
  \A r \in Slots :
    call[r] # NoValue =>
      /\ call[r].url[1] = "https://api.openai.com" =>
           /\ "authorization" \in DOMAIN call[r].headers
           /\ call[r].headers["authorization"] # "Bearer "
      /\ call[r].url[1] = "https://api.anthropic.com" =>
           /\ "x-api-key" \in DOMAIN call[r].headers
           /\ call[r].headers["x-api-key"] # ""

C22_EmptyKeyIsAbsent ==
  [][/\ \A r \in Slots :
          (Receives(r) /\ request'[r].method # "OPTIONS") =>
            LET p == PathOf(request'[r]) IN
            /\ (IsOpenAIPath(p) /\ env.OPENAI_API_KEY \in {"", Undefined}) =>
                 /\ ConfigErrorNow(r)
                 /\ ConfigErrorResponse(response'[r], "OPENAI_API_KEY")
            /\ (IsAnthropicPath(p) /\ env.ANTHROPIC_API_KEY \in {"", Undefined}) =>
                 /\ ConfigErrorNow(r)
                 /\ ConfigErrorResponse(response'[r], "ANTHROPIC_API_KEY")
     /\ NoEmptyCredential']_vars

\* a POST on /v1/ answered 500 with no upstream call, the OpenAI key being
\* the empty string and the Anthropic key a real one
C22_Witness ==
  \E r \in Slots :
    /\ Responded(r)
    /\ request[r].method = "POST"
    /\ IsOpenAIPath(PathOf(request[r]))
    /\ env.OPENAI_API_KEY = ""
    /\ KeySet(env.ANTHROPIC_API_KEY)
    /\ response[r].status = 500
    /\ IsJsonError(response[r], "Configuration Error")
    /\ calls[r] = 0
    /\ call[r] = NoValue

(***************************************************************************)
(* C23: the upstream URL of a forwarded request is built from the inbound  *)
(* path only.  It is the provider's origin followed by the path (on the    *)
(* Anthropic route, the path without its leading /anthropic), the inbound  *)
(* query string is no part of it, and so two requests that differ only in  *)
(* their query string are forwarded to the same upstream URL.              *)
(***************************************************************************)
\* the query string of the inbound URL, "?" included; empty when none
SearchOf(req) ==
  LET u == req.url
      n == Len(PathOf(req)) + 1
  IN [i \in 1..(Len(u) - n) |-> u[n + i]]

\* the upstream URL that path p alone fixes
UpstreamUrlOf(p) ==
  IF IsOpenAIPath(p) THEN <<"https://api.openai.com">> \o p
  ELSE <<"https://api.anthropic.com">> \o [i \in 1..(Len(p) - 2) |-> p[i + 2]]

C23_QueryNotForwarded ==
  [][\A r \in Slots :
       (Receives(r) /\ call'[r] # NoValue) =>
         /\ call'[r].url = UpstreamUrlOf(PathOf(request'[r]))
         /\ \A i \in 1..Len(call'[r].url) : call'[r].url[i] # "?"
         /\ \A q \in Searches, t \in Clock :
              LET req == [request'[r] EXCEPT
                            !.url = <<Origin>> \o PathOf(request'[r]) \o q]
                  res == fetch(req, env, t)
              IN /\ res.kind = "await"
                 /\ res.call.url = call'[r].url]_vars

\* a forwarded request that came with a query string, the upstream URL
\* holding its path alone
C23_Witness ==
  \E r \in Slots :
    /\ pc[r] = "awaitOpenAI"
    /\ SearchOf(request[r]) = <<"?", "health">>
    /\ PathOf(request[r]) = <<"/", "v1", "/", "health">>
    /\ call[r].url = <<"https://api.openai.com", "/", "v1", "/", "health">>

====
